---- MODULE Spec2Model ----
(***************************************************************************)
(* Model of the hybrid quantum-classical layer of                          *)
(* "Machine learning with Qiskit and PyTorch.ipynb":                       *)
(*   QiskitCircuit  - one-qubit circuit H ; RY(theta) ; measure, evaluated *)
(*                    by sampling and turned into an expectation value;    *)
(*   TorchCircuit   - autograd Function whose forward evaluates the        *)
(*                    circuit and whose backward estimates the gradient    *)
(*                    from shifted evaluations.                            *)
(* Angles are integers counting multiples of pi/2, so that sin and cos are *)
(* exact.  Real values computed by the code (frequencies, expectations,    *)
(* gradients) are exact rationals [n, d] in lowest terms.                  *)
(***************************************************************************)
EXTENDS Integers, Sequences, FiniteSets, TLC

VARIABLES QiskitCirc, saved_tensors, nbackward, last,
          expectation_args, expectation_result,
          executions, constructions, forwarded, overwritten,
          pc, examples, output
bridge == <<QiskitCirc, saved_tensors, nbackward, last,
            executions, constructions, forwarded, overwritten>>
expectation == <<expectation_args, expectation_result>>
training == <<pc, examples, output>>
vars == <<QiskitCirc, saved_tensors, nbackward, last,
          expectation_args, expectation_result,
          executions, constructions, forwarded, overwritten,
          pc, examples, output>>

\* ------------------------------------------------------------------ bounds
MaxAngle == 1        \* forward angles range over -MaxAngle..MaxAngle (x pi/2)
MaxLen == 2          \* angle vectors have 0..MaxLen entries
MaxGrad == 1         \* upstream gradients range over -1..MaxGrad
MaxBackward == 2     \* successful backward calls tracked after one forward
SampleStep == 25     \* sampled "1"-counts are the multiples of SampleStep
MaxShots == 3        \* shot counts of the stand-alone expectation calls
MaxExamples == 2     \* training examples the loop goes through

\* -------------------------------------------------------- exact arithmetic
Abs(x) == IF x < 0 THEN -x ELSE x

RECURSIVE GCD(_, _)
GCD(a, b) == IF b = 0 THEN a ELSE GCD(b, a % b)

Norm(n, d) == LET g == GCD(Abs(n), d) IN [n |-> n \div g, d |-> d \div g]
RInt(k) == [n |-> k, d |-> 1]
RDiv(a, b) == Norm(a, b)
RAdd(x, y) == Norm(x.n * y.d + y.n * x.d, x.d * y.d)
RSub(x, y) == Norm(x.n * y.d - y.n * x.d, x.d * y.d)
RMul(x, y) == Norm(x.n * y.n, x.d * y.d)
RLe(x, y) == x.n * y.d <= y.n * x.d

\* sin and cos of n * pi/2
Sin(n) == CASE n % 4 = 0 -> 0 [] n % 4 = 1 -> 1 [] n % 4 = 2 -> 0 [] OTHER -> -1
Cos(n) == Sin(n + 1)

\* ------------------------------------------------------------- to_numbers
\* builds a fresh list holding the item() of every tensor of tensor_list
RECURSIVE to_numbers_from(_, _, _)
to_numbers_from(tensor_list, k, num_list) ==
    IF k > Len(tensor_list) THEN num_list
    ELSE to_numbers_from(tensor_list, k + 1, num_list \o <<tensor_list[k]>>)

to_numbers(tensor_list) == to_numbers_from(tensor_list, 1, <<>>)

\* ---------------------------------------------------------- QiskitCircuit
Parameter(name) == [kind |-> "Parameter", name |-> name]
Bound(x) == [kind |-> "float", value |-> x]

\* circuit.data of create_circuit(): h, barrier, ry(theta), barrier, measure
create_circuit(theta) ==
    << [name |-> "h", params |-> <<>>],
       [name |-> "barrier", params |-> <<>>],
       [name |-> "ry", params |-> <<theta>>],
       [name |-> "barrier", params |-> <<>>],
       [name |-> "measure", params |-> <<>>] >>

QiskitCircuit(shots) ==
    [present |-> TRUE,
     theta |-> Parameter("Theta"),
     shots |-> shots,
     circuit |-> create_circuit(Parameter("Theta"))]

NoQiskitCirc == [present |-> FALSE]

\* variant: takes the first number and ignores the rest
UnpacksFirst(num_list) == Len(num_list) >= 1

\* the list unpacking [self.theta] = ... needs exactly one element
UnpacksToOne(num_list) == Len(num_list) = 1

\* variant: the circuit's angle is assigned only while it is still the
\* symbolic parameter, a later call leaves the circuit at the first angle
bind_stale(self, parameters) ==
    IF UnpacksToOne(to_numbers(parameters))
    THEN [ok |-> TRUE,
          self |-> [self EXCEPT !.theta = Bound(to_numbers(parameters)[1]),
                                !.circuit[3].params =
                                    IF self.theta.kind = "Parameter"
                                    THEN <<Bound(to_numbers(parameters)[1])>>
                                    ELSE @]]
    ELSE [ok |-> FALSE, self |-> self]

\* variant: every call also appends one more rotation to the circuit
bind_appending(self, parameters) ==
    IF UnpacksToOne(to_numbers(parameters))
    THEN [ok |-> TRUE,
          self |-> [self EXCEPT !.theta = Bound(to_numbers(parameters)[1]),
                                !.circuit =
                                    Append([@ EXCEPT ![3].params =
                                              <<Bound(to_numbers(parameters)[1])>>],
                                           [name |-> "ry",
                                            params |-> <<Bound(to_numbers(parameters)[1])>>])]]
    ELSE [ok |-> FALSE, self |-> self]

\* variant: the gate's parameters are assigned before the unpacking, so a
\* call that raises has already changed the circuit
bind_params_first(self, parameters) ==
    IF UnpacksToOne(to_numbers(parameters))
    THEN [ok |-> TRUE,
          self |-> [self EXCEPT !.theta = Bound(to_numbers(parameters)[1]),
                                !.circuit[3].params =
                                    [j \in 1..Len(to_numbers(parameters)) |->
                                        Bound(to_numbers(parameters)[j])]]]
    ELSE [ok |-> FALSE,
          self |-> [self EXCEPT !.circuit[3].params =
                                    [j \in 1..Len(to_numbers(parameters)) |->
                                        Bound(to_numbers(parameters)[j])]]]

\* bind: raises ValueError before touching anything unless one number is given
bind(self, parameters) ==
    IF UnpacksToOne(to_numbers(parameters))
    THEN [ok |-> TRUE,
          self |-> [self EXCEPT !.theta = Bound(to_numbers(parameters)[1]),
                                !.circuit[3].params =
                                    [j \in 1..Len(to_numbers(parameters)) |->
                                        Bound(to_numbers(parameters)[j])]]]
    ELSE [ok |-> FALSE, self |-> self]

\* measurement outcomes of the one-bit classical register
K0 == <<"0">>
K1 == <<"1">>

\* float(ch) of one character of an outcome string
float(ch) == CASE ch = "0" -> 0 [] ch = "1" -> 1

\* a counts dictionary: only outcomes that were observed have an entry
MkCounts(c0, c1) ==
    [key \in (IF c0 > 0 THEN {K0} ELSE {}) \cup (IF c1 > 0 THEN {K1} ELSE {})
        |-> IF key = K0 THEN c0 ELSE c1]

RyAngle(circuit) == circuit[3].params[1].value

\* variant: the circuit without its Hadamard gate, P("1") = (1 - cos theta)/2
TwiceProbOne_NoHadamard(circuit) == 1 - Cos(RyAngle(circuit))

\* H then RY(theta) on |0>: P("1") = (1 + sin theta)/2, P("0") = (1 - sin theta)/2
TwiceProbOne(circuit) == 1 + Sin(RyAngle(circuit))

\* counts of a noiseless backend: shots times the outcome probabilities
ExactOnes(circuit, shots) == (shots * TwiceProbOne(circuit)) \div 2
ExactCounts(circuit, shots) ==
    MkCounts(shots - ExactOnes(circuit, shots), ExactOnes(circuit, shots))

\* counts the sampling simulator can return: an outcome of probability 0 is
\* never observed, otherwise any split of the shots can come out
SampledOnes(circuit, shots) ==
    IF TwiceProbOne(circuit) = 0 THEN {0}
    ELSE IF TwiceProbOne(circuit) = 2 THEN {shots}
    ELSE {c \in 0..shots : c % SampleStep = 0} \cup {ExactOnes(circuit, shots)}

get_counts(circuit, shots) ==
    {MkCounts(shots - c1, c1) : c1 \in SampledOnes(circuit, shots)}

\* every counts dictionary any bound circuit can produce with this many shots
AllCounts(shots) ==
    {MkCounts(shots - c1, c1) :
        c1 \in {c \in 0..shots : c % SampleStep = 0} \cup {shots \div 2, shots}}

\* variant: the bit is not centred, float(key[i]) * 2
BitValue_NotCentred(ch) == RMul(RInt(float(ch)), RInt(2))

\* variant: the sign is the other way round, (1/2 - float(key[i])) * 2
BitValue_Flipped(ch) == RMul(RSub(RDiv(1, 2), RInt(float(ch))), RInt(2))

\* contribution of one measured bit: (float(key[i]) - 1/2) * 2
BitValue(ch) == RMul(RSub(RInt(float(ch)), RDiv(1, 2)), RInt(2))

\* variant: integer division
perc_floor(count, shots) == RInt(count \div shots)

\* perc = counts[key]/shots
perc(count, shots) == RDiv(count, shots)

\* check = [(float(key[i]) - 1/2) * 2 * perc for i in range(nr_qubits)]
check(key, p, nr_qubits) ==
    [q \in 1..nr_qubits |-> RMul(BitValue(key[q]), p)]

RECURSIVE expects_loop(_, _, _, _, _)
expects_loop(keys, counts, shots, nr_qubits, expects) ==
    IF keys = {} THEN expects
    ELSE LET key == CHOOSE x \in keys : TRUE
             chk == check(key, perc(counts[key], shots), nr_qubits)
         IN expects_loop(keys \ {key}, counts, shots, nr_qubits,
                         [q \in 1..nr_qubits |-> RAdd(expects[q], chk[q])])

N_qubit_expectation_Z(counts, shots, nr_qubits) ==
    expects_loop(DOMAIN counts, counts, shots, nr_qubits,
                 [q \in 1..nr_qubits |-> RInt(0)])

\* what the simulator can return to run(i): nothing is executed when bind fails
counts_for(self, i) ==
    IF bind(self, i).ok
    THEN get_counts(bind(self, i).self.circuit, bind(self, i).self.shots)
    ELSE {MkCounts(0, 0)}

\* variant: an angle that is already bound is not executed again
run_reusing(self, i, counts) ==
    LET b == bind(self, i) IN
    IF ~b.ok
    THEN [ok |-> FALSE, feasible |-> TRUE, self |-> b.self,
          expects |-> <<>>, runs |-> <<>>]
    ELSE [ok |-> TRUE,
          feasible |-> counts \in get_counts(b.self.circuit, b.self.shots),
          self |-> b.self,
          expects |-> N_qubit_expectation_Z(counts, b.self.shots, 1),
          runs |-> IF self.theta = b.self.theta THEN <<>>
                   ELSE << [params |-> b.self.circuit[3].params,
                            counts |-> counts,
                            expects |-> N_qubit_expectation_Z(counts,
                                            b.self.shots, 1)] >>]

\* run: bind, execute on the simulator (which returns counts), expectation.
\* A failing bind ends the call before execute.
run(self, i, counts) ==
    LET b == bind(self, i) IN
    IF ~b.ok
    THEN [ok |-> FALSE, feasible |-> TRUE, self |-> b.self,
          expects |-> <<>>, runs |-> <<>>]
    ELSE [ok |-> TRUE,
          feasible |-> counts \in get_counts(b.self.circuit, b.self.shots),
          self |-> b.self,
          expects |-> N_qubit_expectation_Z(counts, b.self.shots, 1),
          runs |-> << [params |-> b.self.circuit[3].params,
                       counts |-> counts,
                       expects |-> N_qubit_expectation_Z(counts, b.self.shots, 1)] >>]

\* ----------------------------------------------------------- TorchCircuit
s == 1      \* np.pi/2, in units of pi/2
ShotsInForward == 100

NoCall == [op |-> "none", arg |-> <<>>, error |-> "none", raised_in |-> "none",
           result |-> <<>>, runs |-> <<>>]

Angles == -MaxAngle..MaxAngle
\* one-angle vectors over all angles, vectors of any other length over 0..1
Rows == {<<a>> : a \in Angles}
            \cup UNION {[1..n -> 0..1] : n \in (0..MaxLen) \ {1}}
Inputs == {<<row>> : row \in Rows}
Grads == {<< <<g>> >> : g \in -1..MaxGrad}

NoArgs == [counts |-> MkCounts(0, 0), shots |-> 0, nr_qubits |-> 0]
NoForward == [input |-> <<>>, output |-> <<>>]

\* a context object as Function.apply creates it: no attribute QiskitCirc,
\* nothing saved
FreshContext ==
    [QiskitCirc |-> NoQiskitCirc, saved_tensors |-> <<>>, nbackward |-> 0,
     executions |-> 0, forwarded |-> NoForward, overwritten |-> <<>>]

\* the context the bridge variables describe
Context ==
    [QiskitCirc |-> QiskitCirc, saved_tensors |-> saved_tensors,
     nbackward |-> nbackward, executions |-> executions,
     forwarded |-> forwarded, overwritten |-> overwritten]

InitBridge ==
    /\ QiskitCirc = NoQiskitCirc
    /\ saved_tensors = <<>>
    /\ nbackward = 0
    /\ last = NoCall
    /\ executions = 0
    /\ constructions = 0
    /\ forwarded = NoForward
    /\ overwritten = <<>>

Init ==
    /\ InitBridge
    /\ expectation_args = NoArgs
    /\ expectation_result = <<>>
    /\ pc = "none"
    /\ examples = 0
    /\ output = <<>>

\* if not hasattr(ctx, 'QiskitCirc')
builds_evaluator(ctx) == ~ctx.QiskitCirc.present

\* variant: save_for_backward keeps what an earlier forward saved
save_for_backward_first(ctx, result, i) ==
    IF ctx.saved_tensors = <<>> THEN <<result, i>> ELSE ctx.saved_tensors

\* ctx.save_for_backward(result, i) replaces whatever was saved before
save_for_backward(ctx, result, i) == <<result, i>>

\* TorchCircuit.forward(ctx, i)
forward(ctx, i) ==
    LET qc == IF builds_evaluator(ctx) THEN QiskitCircuit(ShotsInForward)
              ELSE ctx.QiskitCirc
    IN \E counts \in counts_for(qc, i[1]) :
       \E r \in {run(qc, i[1], counts)} :
        LET result == <<r.expects>>
        IN /\ QiskitCirc' = r.self
           /\ constructions' =
                 constructions + (IF builds_evaluator(ctx) THEN 1 ELSE 0)
           /\ IF r.ok
              THEN /\ saved_tensors' = save_for_backward(ctx, result, i)
                   /\ nbackward' = 0
                   /\ executions' = Len(r.runs)
                   /\ forwarded' = [input |-> i, output |-> result]
                   /\ overwritten' =
                         IF ctx.saved_tensors # <<>> /\ ctx.nbackward = 0
                         THEN ctx.saved_tensors[2] ELSE <<>>
                   /\ last' = [op |-> "forward", arg |-> i, error |-> "none",
                               raised_in |-> "none", result |-> result,
                               runs |-> r.runs]
              ELSE /\ saved_tensors' = ctx.saved_tensors
                   /\ nbackward' = ctx.nbackward
                   /\ executions' = ctx.executions
                   /\ forwarded' = ctx.forwarded
                   /\ overwritten' = ctx.overwritten
                   /\ last' = [op |-> "forward", arg |-> i,
                               error |-> "ValueError", raised_in |-> "bind",
                               result |-> <<>>, runs |-> <<>>]

\* a direct call of forward on the context at hand
Forward(i) ==
    /\ forward(Context, i)
    /\ UNCHANGED <<expectation, training>>

\* line 202-203: input_plus_s is another name of the list input_numbers, so
\* the assignment to input_plus_s[k] changes that one list
ListAfterShiftUp(input_numbers, k) ==
    [input_numbers EXCEPT ![k] = input_numbers[k] + s]

\* line 208-209: input_minus_s names the same list again, which by now holds
\* the shifted-up value at k
ListAfterShiftDown(input_numbers, k) ==
    [input_numbers EXCEPT ![k] = input_numbers[k] - s]

\* variant: the difference is halved
gradient_result_halved(result_plus_s, result_minus_s) ==
    RMul(RDiv(1, 2), RSub(result_plus_s, result_minus_s))

\* gradient_result = (result_plus_s - result_minus_s)
gradient_result(result_plus_s, result_minus_s) ==
    RSub(result_plus_s, result_minus_s)

\* the loop of backward over k; cs[2k-1], cs[2k] are the counts the simulator
\* returns for the two executions of iteration k
RECURSIVE backward_loop(_, _, _, _, _, _)
backward_loop(k, input_numbers, qc, gradient, runs, cs) ==
    IF k > Len(input_numbers)
    THEN [ok |-> TRUE, feasible |-> TRUE, self |-> qc,
          gradient |-> gradient, runs |-> runs]
    ELSE LET input_plus_s == ListAfterShiftUp(input_numbers, k)
             rp == run(qc, input_plus_s, cs[2 * k - 1])
         IN IF ~rp.ok
            THEN [ok |-> FALSE, feasible |-> TRUE, self |-> rp.self,
                  gradient |-> gradient, runs |-> runs]
            ELSE LET input_minus_s == ListAfterShiftDown(input_plus_s, k)
                     rm == run(rp.self, input_minus_s, cs[2 * k])
                 IN IF ~rm.ok
                    THEN [ok |-> FALSE, feasible |-> rp.feasible,
                          self |-> rm.self, gradient |-> gradient,
                          runs |-> runs \o rp.runs]
                    ELSE LET rest == backward_loop(k + 1, input_minus_s, rm.self,
                                        Append(gradient,
                                            gradient_result(rp.expects[1],
                                                            rm.expects[1])),
                                        runs \o rp.runs \o rm.runs, cs)
                         IN [rest EXCEPT !.feasible =
                                rp.feasible /\ rm.feasible /\ rest.feasible]

\* result.float() * grad_output.float()
chain_rule(gradient, grad_output) ==
    << [k \in 1..Len(gradient) |-> RMul(gradient[k], RInt(grad_output[1][1]))] >>

\* variant: the failed unpacking is swallowed and a zero gradient returned
unpack_saved_swallowed(grad_output) ==
    [op |-> "backward", arg |-> grad_output, error |-> "none",
     raised_in |-> "none", result |-> << <<RInt(0)>> >>, runs |-> <<>>]

\* forward_tensor, i = ctx.saved_tensors with nothing saved: the unpacking
\* raises, backward ends there and the error reaches the caller
unpack_saved_fails(grad_output) ==
    [op |-> "backward", arg |-> grad_output, error |-> "ValueError",
     raised_in |-> "backward", result |-> <<>>, runs |-> <<>>]

\* variant: the shift is applied to the saved input itself and stays there
saved_input_shifted(saved) ==
    <<saved[1], <<ListAfterShiftUp(saved[2][1], 1)>> >>

\* variant: backward drops the saved tensors
saved_discarded(saved) == <<>>

\* what the context holds as saved tensors once backward has returned
saved_after_backward(saved) == saved

\* the counts the simulator can hand to the run at point: those of the bound
\* circuit (any, when bind fails and nothing is executed)
may_return(qc, point) ==
    IF bind(qc, point).ok THEN counts_for(qc, point) ELSE AllCounts(qc.shots)

\* TorchCircuit.backward(ctx, grad_output) on the context at hand
backward(grad_output) ==
    /\ UNCHANGED <<constructions, forwarded, overwritten>>
    /\ IF Len(saved_tensors) # 2
       THEN /\ UNCHANGED <<QiskitCirc, saved_tensors, nbackward, executions>>
            /\ last' = unpack_saved_fails(grad_output)
       ELSE LET i == saved_tensors[2]
                input_numbers == to_numbers(i[1])
                n == Len(input_numbers)
            IN \E cs \in {c \in [1..(2 * n) -> AllCounts(QiskitCirc.shots)] :
                            n = 1 => /\ c[1] \in may_return(QiskitCirc,
                                            ListAfterShiftUp(input_numbers, 1))
                                     /\ c[2] \in may_return(QiskitCirc,
                                            ListAfterShiftDown(
                                              ListAfterShiftUp(input_numbers, 1), 1))} :
                \E r \in {backward_loop(1, input_numbers, QiskitCirc, <<>>, <<>>, cs)} :
                   /\ r.feasible
                   /\ QiskitCirc' = r.self
                   /\ saved_tensors' = saved_after_backward(saved_tensors)
                   /\ executions' = executions + Len(r.runs)
                   /\ IF r.ok
                      THEN /\ nbackward' = nbackward + 1
                           /\ last' = [op |-> "backward", arg |-> grad_output,
                                       error |-> "none", raised_in |-> "none",
                                       result |-> chain_rule(r.gradient, grad_output),
                                       runs |-> r.runs]
                      ELSE /\ UNCHANGED nbackward
                           /\ last' = [op |-> "backward", arg |-> grad_output,
                                       error |-> "ValueError", raised_in |-> "bind",
                                       result |-> <<>>, runs |-> r.runs]

\* a direct call of backward on the context at hand
Backward(grad_output) ==
    /\ nbackward < MaxBackward
    /\ backward(grad_output)
    /\ UNCHANGED <<expectation, training>>

Next ==
    \/ \E i \in Inputs : Forward(i)
    \/ \E grad_output \in Grads : Backward(grad_output)

Spec == Init /\ [][Next]_vars

\* --------------------------------------------- Net and the training loop
\* variant: the expectation is shifted but not halved
remap_unhalved(x) == RAdd(x, RInt(1))

\* x = (x+1)/2
remap(x) == RMul(RAdd(x, RInt(1)), RDiv(1, 2))

\* x = torch.cat((x, 1-x), -1)
cat_with_complement(x) == << <<x, RSub(RInt(1), x)>> >>

\* variant: loss.backward() is issued before network(data)
after_backward_first(p) ==
    CASE p = "zero_grad" -> "backward"
      [] p = "backward" -> "network"
      [] p = "network" -> "nll_loss"
      [] p = "nll_loss" -> "step"
      [] OTHER -> "zero_grad"

\* the statements of the loop body in the order they are written
after(p) ==
    CASE p = "zero_grad" -> "network"
      [] p = "network" -> "nll_loss"
      [] p = "nll_loss" -> "backward"
      [] p = "backward" -> "step"
      [] OTHER -> "zero_grad"

InitTraining ==
    /\ InitBridge
    /\ expectation_args = NoArgs
    /\ expectation_result = <<>>
    /\ pc = "zero_grad"
    /\ examples = 0
    /\ output = <<>>

\* optimizer.zero_grad(), for the next (data, target) of train_loader
ZeroGrad ==
    /\ pc = "zero_grad"
    /\ examples < MaxExamples
    /\ pc' = after(pc)
    /\ UNCHANGED <<bridge, expectation, examples, output>>

\* output = network(data): the layers before the circuit give one angle,
\* x = qc(x) runs forward on a new context, then the remap and the cat
Network ==
    /\ pc = "network"
    /\ \E x \in Angles : forward(FreshContext, << <<x>> >>)
    /\ output' = cat_with_complement(remap(last'.result[1][1]))
    /\ pc' = after(pc)
    /\ UNCHANGED <<expectation, examples>>

\* loss = F.nll_loss(output, target)
NllLoss ==
    /\ pc = "nll_loss"
    /\ pc' = after(pc)
    /\ UNCHANGED <<bridge, expectation, examples, output>>

\* loss.backward(): autograd calls backward with the upstream gradient
LossBackward ==
    /\ pc = "backward"
    /\ \E grad_output \in Grads : backward(grad_output)
    /\ pc' = after(pc)
    /\ UNCHANGED <<expectation, examples, output>>

\* optimizer.step(), total_loss.append(loss.item())
OptimizerStep ==
    /\ pc = "step"
    /\ pc' = after(pc)
    /\ examples' = examples + 1
    /\ UNCHANGED <<bridge, expectation, output>>

NextTraining ==
    \/ ZeroGrad
    \/ Network
    \/ NllLoss
    \/ LossBackward
    \/ OptimizerStep

SpecTraining == InitTraining /\ [][NextTraining]_vars

\* ------------------------------------- N_qubit_expectation_Z on its own
\* outcome strings of a classical register of len bits
Keys(len) == [1..len -> {"0", "1"}]

RECURSIVE Total(_, _)
Total(counts, keys) ==
    IF keys = {} THEN 0
    ELSE LET key == CHOOSE x \in keys : TRUE
         IN counts[key] + Total(counts, keys \ {key})

\* the counts dictionaries over such outcomes whose counts sum to shots; an
\* outcome may be missing or be present with count 0
CountsDicts(len, shots) ==
    UNION {{c \in [observed -> 0..shots] : Total(c, observed) = shots} :
                observed \in SUBSET Keys(len)}

InitExpectation ==
    /\ InitBridge
    /\ pc = "none"
    /\ examples = 0
    /\ output = <<>>
    /\ \E len \in 1..2, shots \in 1..MaxShots :
         \E counts \in CountsDicts(len, shots), nr_qubits \in 1..len :
            expectation_args = [counts |-> counts, shots |-> shots,
                                nr_qubits |-> nr_qubits]
    /\ expectation_result = <<>>

Expectation ==
    /\ expectation_result = <<>>
    /\ expectation_result' =
            N_qubit_expectation_Z(expectation_args.counts,
                                  expectation_args.shots,
                                  expectation_args.nr_qubits)
    /\ UNCHANGED <<expectation_args, bridge, training>>

NextExpectation == Expectation

SpecExpectation == InitExpectation /\ [][NextExpectation]_vars

\* ================================================================ claims
BackwardDone == last.op = "backward" /\ last.error = "none"
ForwardDone == last.op = "forward" /\ last.error = "none"
SavedInput == saved_tensors[2][1]
IsExact(r) == r.counts = ExactCounts(create_circuit(r.params[1]), ShotsInForward)
ShiftedAt(v, k, d) == [j \in 1..Len(v) |-> Bound(IF j = k THEN v[j] + d ELSE v[j])]

\* C1: for each index k, backward evaluates the circuit at the saved input
\* with index k raised by s and at the saved input with index k lowered by s
C1_ShiftedUpAndDown ==
    BackwardDone =>
        /\ Len(last.runs) = 2 * Len(SavedInput)
        /\ \A k \in 1..Len(SavedInput) :
            /\ last.runs[2 * k - 1].params = ShiftedAt(SavedInput, k, s)
            /\ last.runs[2 * k].params = ShiftedAt(SavedInput, k, -s)

\* C2: for every counts dictionary whose counts are non-negative and sum to
\* the shot count, every expectation value returned lies in [-1, 1]
C2_ExpectationInRange ==
    (/\ expectation_result # <<>>
     /\ Total(expectation_args.counts, DOMAIN expectation_args.counts)
            = expectation_args.shots) =>
        \A q \in 1..expectation_args.nr_qubits :
            /\ RLe(RInt(-1), expectation_result[q])
            /\ RLe(expectation_result[q], RInt(1))

C2_Witness ==
    /\ expectation_args.nr_qubits = 1
    /\ expectation_args.shots = 3
    /\ expectation_args.counts = MkCounts(1, 2)
    /\ expectation_result = <<RDiv(1, 3)>>

\* C3 (as stated): a measured "0" contributes +1 and a measured "1" -1, so
\* all shots "0" gives expectation +1 and all shots "1" gives -1
C3_ZeroIsPlusOne ==
    \A j \in 1..Len(last.runs) :
        LET r == last.runs[j] IN
        /\ DOMAIN r.counts = {K0} => r.expects[1] = RInt(1)
        /\ DOMAIN r.counts = {K1} => r.expects[1] = RInt(-1)

\* C3 (amended): a measured "0" contributes -1 and a measured "1" +1, so
\* all shots "0" gives expectation -1 and all shots "1" gives +1
C3_ZeroIsMinusOne ==
    \A j \in 1..Len(last.runs) :
        LET r == last.runs[j] IN
        /\ DOMAIN r.counts = {K0} => r.expects[1] = RInt(-1)
        /\ DOMAIN r.counts = {K1} => r.expects[1] = RInt(1)

C3_Witness ==
    /\ \E j \in 1..Len(last.runs) : DOMAIN last.runs[j].counts = {K0}
    /\ \E j \in 1..Len(last.runs) : DOMAIN last.runs[j].counts = {K1}

\* C4: for every counts dictionary and every qubit index q below nr_qubits,
\* expectation[q] is the sum over the observed outcomes of
\* (bit_q - 0.5) * 2 * count/shots, that is (shots that measured bit q as "1"
\* minus shots that measured it as "0") / shots; a missing outcome adds nothing
CountWhere(counts, q, ch) ==
    Total(counts, {key \in DOMAIN counts : key[q] = ch})

C4_ExpectationFormula ==
    expectation_result # <<>> =>
        /\ Len(expectation_result) = expectation_args.nr_qubits
        /\ \A q \in 1..expectation_args.nr_qubits :
              expectation_result[q] =
                  RDiv(CountWhere(expectation_args.counts, q, "1")
                         - CountWhere(expectation_args.counts, q, "0"),
                       expectation_args.shots)

C4_Witness ==
    /\ expectation_args.nr_qubits = 2
    /\ expectation_args.shots = 3
    /\ DOMAIN expectation_args.counts = {<<"0", "1">>, <<"1", "1">>}
    /\ expectation_args.counts[<<"0", "1">>] = 2
    /\ expectation_result = <<RDiv(-1, 3), RInt(1)>>

\* C5 (as stated): with exact counts evaluate([theta]) = -sin(theta)
C5_MinusSin ==
    (ForwardDone /\ IsExact(last.runs[1])) =>
        last.result[1][1] = RInt(-Sin(last.arg[1][1]))

\* C5 (amended): with exact counts evaluate([theta]) = sin(theta); so
\* evaluate([0]) = 0 and evaluate([pi/2]) = 1
C5_PlusSin ==
    (ForwardDone /\ IsExact(last.runs[1])) =>
        last.result[1][1] = RInt(Sin(last.arg[1][1]))

C5_Witness ==
    /\ ForwardDone /\ IsExact(last.runs[1])
    /\ last.arg[1][1] = 1
    /\ last.result[1][1] = RInt(1)

\* C6: with exact counts, forward at [theta] then backward with upstream
\* gradient 1 returns -cos(theta); at theta = pi/2 it returns 0
C6_MinusCos ==
    (/\ BackwardDone
     /\ last.arg = << <<1>> >>
     /\ \A j \in 1..Len(last.runs) : IsExact(last.runs[j])) =>
        last.result[1][1] = RInt(-Cos(SavedInput[1]))

\* C7: entry k of the returned gradient is (expectation of the first
\* evaluation for k) - (expectation of the second), not halved, times the
\* upstream gradient; there is one entry per input parameter
C7_GradientIsDifference ==
    BackwardDone =>
        /\ Len(last.result[1]) = Len(SavedInput)
        /\ \A k \in 1..Len(SavedInput) :
            last.result[1][k] =
                RMul(RSub(last.runs[2 * k - 1].expects[1],
                          last.runs[2 * k].expects[1]),
                     RInt(last.arg[1][1]))

C7_Witness ==
    /\ BackwardDone
    /\ last.arg = << <<-1>> >>
    /\ last.runs[1].expects[1] = RInt(1)
    /\ last.runs[2].expects[1] = RDiv(1, 2)
    /\ last.result = << <<RDiv(-1, 2)>> >>

\* C8: an angle vector whose length is not 1 makes the call fail with the
\* parameter-count error, which reaches the caller, and nothing is executed
C8_WrongLengthFails ==
    (last.op = "forward" /\ Len(last.arg[1]) # 1) =>
        /\ last.error = "ValueError"
        /\ last.raised_in = "bind"
        /\ last.result = <<>>
        /\ last.runs = <<>>

C8_Witness ==
    /\ last.op = "forward"
    /\ Len(last.arg[1]) = 2
    /\ last.error = "ValueError"
    /\ last.runs = <<>>

\* C9: backward on a context with no forward executed (nothing saved, no
\* evaluator constructed) fails with an error and executes no circuit
C9_BackwardBeforeForwardFails ==
    (last.op = "backward" /\ ~QiskitCirc.present) =>
        /\ saved_tensors = <<>>
        /\ last.error = "ValueError"
        /\ last.raised_in = "backward"
        /\ last.result = <<>>
        /\ last.runs = <<>>

C9_Witness ==
    /\ last.op = "backward"
    /\ ~QiskitCirc.present
    /\ last.error = "ValueError"

\* C10 (as stated): backward discards the saved state, so backward succeeds
\* at most once per preceding forward
C10_AtMostOneBackward == nbackward <= 1

\* C10 (amended): backward leaves the saved tensors as they are, and it
\* fails exactly when the context holds no saved tensors; so after one
\* forward a second backward runs again
C10_BackwardKeepsSaved ==
    [][(last'.op = "backward" /\ (last' # last \/ nbackward' # nbackward)) =>
            /\ saved_tensors' = saved_tensors
            /\ (last'.error = "none") <=> (saved_tensors # <<>>)
            /\ (last'.error = "none") => (nbackward' = nbackward + 1)]_vars

C10_Witness == nbackward = 2 /\ BackwardDone /\ saved_tensors # <<>>

\* C11: a successful forward executes the circuit exactly once and a
\* successful backward exactly 2 * len(input) times, so one forward and one
\* backward on the one-parameter circuit make 3 executions
C11_ExecutionsPerCall ==
    /\ ForwardDone => (Len(last.runs) = 1 /\ executions = 1)
    /\ BackwardDone =>
          /\ Len(last.runs) = 2 * Len(SavedInput)
          /\ executions = 1 + 2 * Len(SavedInput) * nbackward
          /\ nbackward = 1 => executions = 3

C11_Witness ==
    /\ BackwardDone
    /\ nbackward = 1
    /\ Len(last.runs) = 2
    /\ executions = 3

\* C12: in one training run only the first forward constructs a
\* QiskitCircuit, every later forward reuses it
C12_ConstructedOnce == constructions <= 1

\* C13: a second forward on the same context before any backward replaces the
\* saved pair: exactly one pair is held, it is the latest forward's, and the
\* next backward differentiates at the latest input
C13_LatestForwardWins ==
    /\ saved_tensors # <<>> =>
          (Len(saved_tensors) = 2 /\ saved_tensors[2] = forwarded.input)
    /\ BackwardDone =>
          last.runs[1].params = ShiftedAt(forwarded.input[1], 1, s)

C13_Witness ==
    /\ BackwardDone
    /\ overwritten # <<>>
    /\ overwritten # forwarded.input
    /\ saved_tensors[2] = forwarded.input

\* C14: after a successful backward the saved input and the saved forward
\* result are the values forward saved, the shifts were made on copies
C14_SavedUnchanged ==
    BackwardDone => saved_tensors = <<forwarded.output, forwarded.input>>

C14_Witness ==
    /\ BackwardDone
    /\ nbackward = 2
    /\ saved_tensors = <<forwarded.output, forwarded.input>>
    /\ last.runs[1].params # <<Bound(forwarded.input[1][1])>>

\* what a newly built evaluator returns for theta on a noiseless backend
FreshEvaluate(row) ==
    run(QiskitCircuit(ShotsInForward), row,
        ExactCounts(bind(QiskitCircuit(ShotsInForward), row).self.circuit,
                    ShotsInForward)).expects

\* C15: a successful evaluate binds the requested angle, and with the noise
\* of sampling taken away its result depends on that angle only, whatever
\* the evaluator was bound to before
C15_DependsOnRequestedAngle ==
    ForwardDone =>
        /\ last.runs[1].params = <<Bound(last.arg[1][1])>>
        /\ QiskitCirc.theta = Bound(last.arg[1][1])
        /\ last.runs[1].counts = ExactCounts(QiskitCirc.circuit, QiskitCirc.shots)
              => last.result[1] = FreshEvaluate(last.arg[1])

C15_Witness ==
    /\ ForwardDone
    /\ overwritten # <<>>
    /\ overwritten # last.arg
    /\ last.runs[1].counts = ExactCounts(QiskitCirc.circuit, QiskitCirc.shots)
    /\ last.result[1] = FreshEvaluate(last.arg[1])
    /\ last.result[1] = <<RInt(1)>>

\* C16: an evaluator, once built, always has shots = 100 and the gates
\* h, barrier, ry, barrier, measure on one qubit; only ry's angle varies
C16_StructureFixed ==
    QiskitCirc.present =>
        /\ QiskitCirc.shots = ShotsInForward
        /\ Len(QiskitCirc.circuit[3].params) = 1
        /\ QiskitCirc.circuit = create_circuit(QiskitCirc.circuit[3].params[1])

C16_Witness ==
    /\ QiskitCirc.present
    /\ BackwardDone
    /\ nbackward = 2
    /\ QiskitCirc.circuit = create_circuit(Bound(1))
    /\ overwritten = << <<0>> >>

\* C19: a forward that raises in bind leaves an evaluator that existed
\* before the call exactly as it was, bound angle and circuit included, and
\* one built by that very call exactly as constructed
C19_FailedBindChangesNothing ==
    [][(last'.op = "forward" /\ last'.error = "ValueError") =>
          QiskitCirc' = IF QiskitCirc.present THEN QiskitCirc
                        ELSE QiskitCircuit(ShotsInForward)]_vars

C19_Witness ==
    /\ last.op = "forward"
    /\ last.error = "ValueError"
    /\ last.raised_in = "bind"
    /\ Len(last.arg[1]) = 2
    /\ QiskitCirc.present
    /\ QiskitCirc.theta = Bound(1)
    /\ QiskitCirc.circuit = create_circuit(Bound(1))

\* C17: in the training loop every example's forward has completed before
\* its backward starts, the backward has completed before the optimizer step
\* and before the next forward, and backward never finds nothing saved
C17_StrictlySequential ==
    /\ pc \in {"nll_loss", "backward"} =>
          (ForwardDone /\ saved_tensors # <<>> /\ nbackward = 0 /\ executions = 1)
    /\ pc = "step" => (BackwardDone /\ nbackward = 1 /\ executions = 3)
    /\ pc \in {"zero_grad", "network"} =>
          (last = NoCall \/ (BackwardDone /\ nbackward = 1))
    /\ last.error = "none"

C17_Witness ==
    /\ pc = "step"
    /\ examples = 1
    /\ BackwardDone
    /\ nbackward = 1
    /\ constructions = 2

\* C18: the model's output is the pair (p, 1 - p) with p = (e + 1) / 2 for
\* the bridge output e in [-1, 1]; p and 1 - p lie in [0, 1] and sum to 1
C18_OutputIsProbabilityPair ==
    output # <<>> =>
        LET e == forwarded.output[1][1]
            p == output[1][1]
            q == output[1][2]
        IN (RLe(RInt(-1), e) /\ RLe(e, RInt(1))) =>
              /\ Len(output[1]) = 2
              /\ RAdd(p, p) = RAdd(e, RInt(1))
              /\ q = RSub(RInt(1), p)
              /\ RLe(RInt(0), p) /\ RLe(p, RInt(1))
              /\ RLe(RInt(0), q) /\ RLe(q, RInt(1))
              /\ RAdd(p, q) = RInt(1)

C18_Witness ==
    /\ pc = "nll_loss"
    /\ forwarded.output = << <<RDiv(1, 2)>> >>
    /\ output = << <<RDiv(3, 4), RDiv(1, 4)>> >>
====
